---- MODULE Spec2Model ----
(***************************************************************************)
(* Model of ElfaScraper.fetch_endpoint (src/src/scraper/elfa_scrap.py) and *)
(* of send_error_to_telegram (src/src/notification.py).                    *)
(*                                                                         *)
(* Conventions.  A Python string is a sequence of symbols; a symbol is a   *)
(* TLA+ string standing for one character or for one indivisible word      *)
(* (a key name, a path segment, a fixed piece of an f-string).             *)
(* A decoded JSON value is a tagged record [t, v]:                         *)
(*   null  v = 0          int  v = the number      str  v = symbols        *)
(*   list  v = sequence of values                                          *)
(*   dict  v = sequence of <<key, value>> pairs in insertion order         *)
(* A Python exception is a record [type, msg]; str(e) is msg.              *)
(* One invocation of fetch_endpoint is followed from the call to its       *)
(* return (or to the exception that leaves it); trace records every        *)
(* effect the invocation has on its collaborators, in program order.       *)
(***************************************************************************)
EXTENDS Integers, Sequences, FiniteSets, TLC

VARIABLES pc, path_url, endpoint_type, title_elfa, full_url, session,
          resp, raw_data, exc, trace, result, raised, notif_config

vars == <<pc, path_url, endpoint_type, title_elfa, full_url, session,
          resp, raw_data, exc, trace, result, raised, notif_config>>

(***************************************************************************)
(* Bounds of the model.                                                    *)
(***************************************************************************)
MaxItems == 2

(***************************************************************************)
(* Program constants.                                                      *)
(***************************************************************************)
ErrorTextLimit == 200

HttpOk == 200

(***************************************************************************)
(* JSON values and the Python operations the parser applies to them.       *)
(***************************************************************************)
JNull == [t |-> "null", v |-> 0]

JInt(n) == [t |-> "int", v |-> n]

JStr(s) == [t |-> "str", v |-> s]

JList(xs) == [t |-> "list", v |-> xs]

JDict(kvs) == [t |-> "dict", v |-> kvs]

Unset == [t |-> "unset", v |-> 0]

Exc(type, msg) == [type |-> type, msg |-> msg]

NoExc == Exc("none", <<>>)

Min(a, b) == IF a < b THEN a ELSE b

\* variant of Take: the slice is forgotten, s is kept whole
TakeAll(s, n) == s

\* s[:n]
Take(s, n) == SubSeq(s, 1, Min(n, Len(s)))

IsWhite(c) == c \in {" ", "\n", "\t"}

RECURSIVE LStrip(_)
LStrip(s) == IF s # <<>> /\ IsWhite(Head(s)) THEN LStrip(Tail(s)) ELSE s

RECURSIVE RStrip(_)
RStrip(s) ==
    IF s # <<>> /\ IsWhite(s[Len(s)]) THEN RStrip(SubSeq(s, 1, Len(s) - 1)) ELSE s

\* str.strip()
Strip(s) == RStrip(LStrip(s))

\* needle in hay, for two strings
IsSubstring(needle, hay) ==
    \E i \in 0..(Len(hay) - Len(needle)) :
        \A j \in 1..Len(needle) : hay[i + j] = needle[j]

\* key in d, for a dict d
HasKey(d, k) == \E i \in 1..Len(d.v) : d.v[i][1] = k

\* d[key], for a dict d that has the key
Lookup(d, k) == d.v[CHOOSE i \in 1..Len(d.v) : d.v[i][1] = k][2]

\* d.get(key, default), for a dict d
Get(d, k, default) == IF HasKey(d, k) THEN Lookup(d, k) ELSE default

\* bool(x)
Truthy(x) ==
    CASE x.t = "null" -> FALSE
      [] x.t = "int"  -> x.v # 0
      [] OTHER        -> Len(x.v) > 0

\* whether len(x) and iteration are defined
IsSized(x) == x.t \in {"str", "list", "dict"}

\* list(x) for an iterable: elements, characters, or keys
Iter(x) ==
    CASE x.t = "list" -> x.v
      [] x.t = "str"  -> [i \in 1..Len(x.v) |-> JStr(<<x.v[i]>>)]
      [] x.t = "dict" -> [i \in 1..Len(x.v) |-> JStr(<<x.v[i][1]>>)]

\* str(x)
StrOf(x) ==
    CASE x.t = "str"  -> x.v
      [] x.t = "null" -> <<"None">>
      [] x.t = "int"  -> <<"<int>", ToString(x.v)>>
      [] x.t = "list" -> <<"[", "...", "]">>
      [] x.t = "dict" -> <<"{", "...", "}">>

\* key in x, for an arbitrary decoded value: [ok, val] or [ok = FALSE, exc]
Contains(x, k) ==
    CASE x.t = "dict" -> [ok |-> TRUE, val |-> HasKey(x, k)]
      [] x.t = "list" ->
           [ok |-> TRUE,
            val |-> \E i \in 1..Len(x.v) : x.v[i].t = "str" /\ x.v[i].v = <<k>>]
      [] x.t = "str"  -> [ok |-> TRUE, val |-> IsSubstring(<<k>>, x.v)]
      [] OTHER ->
           [ok |-> FALSE,
            exc |-> Exc("TypeError", <<"argument of type '", x.t, "' is not iterable">>)]

\* x[key] for a string key: [ok, val] or [ok = FALSE, exc]
Subscript(x, k) ==
    CASE x.t = "dict" ->
           IF HasKey(x, k) THEN [ok |-> TRUE, val |-> Lookup(x, k)]
           ELSE [ok |-> FALSE, exc |-> Exc("KeyError", <<"'", k, "'">>)]
      [] x.t \in {"list", "str"} ->
           [ok |-> FALSE,
            exc |-> Exc("TypeError", <<x.t, " indices must be integers">>)]
      [] OTHER ->
           [ok |-> FALSE,
            exc |-> Exc("TypeError", <<"'", x.t, "' object is not subscriptable">>)]

\* x[0]: [ok, val] or [ok = FALSE, exc]
First(x) ==
    CASE x.t = "list" /\ Len(x.v) > 0 -> [ok |-> TRUE, val |-> x.v[1]]
      [] x.t = "str" /\ Len(x.v) > 0  -> [ok |-> TRUE, val |-> JStr(<<x.v[1]>>)]
      [] x.t \in {"list", "str"}      ->
           [ok |-> FALSE, exc |-> Exc("IndexError", <<"index out of range">>)]
      [] x.t = "dict" -> [ok |-> FALSE, exc |-> Exc("KeyError", <<"0">>)]
      [] OTHER ->
           [ok |-> FALSE,
            exc |-> Exc("TypeError", <<"'", x.t, "' object is not subscriptable">>)]

(***************************************************************************)
(* src.utils: the validator, the namer and the timestamp resolver.         *)
(***************************************************************************)
KnownEndpoints == {"event-summary", "trending-narratives"}

RECURSIVE LStripSlash(_)
\* path.lstrip("/")
LStripSlash(p) == IF p # <<>> /\ Head(p) = "/" THEN LStripSlash(Tail(p)) ELSE p

RECURSIVE UpToDelimiter(_)
UpToDelimiter(p) ==
    IF p = <<>> \/ Head(p) \in {"?", "/"} THEN <<>>
    ELSE <<Head(p)>> \o UpToDelimiter(Tail(p))

\* the identifying prefix segment of a path
PrefixSegment(p) == UpToDelimiter(LStripSlash(p))

\* is_valid_endpoint_path: the endpoint kind, or ValueError carrying the path
is_valid_endpoint_path(p) ==
    LET seg == PrefixSegment(p) IN
    IF Len(seg) = 1 /\ seg[1] \in KnownEndpoints
    THEN [ok |-> TRUE, val |-> seg[1]]
    ELSE [ok |-> FALSE, exc |-> Exc("ValueError", <<"Unknown endpoint path: ">> \o p)]

\* get_endpoint_name: the prefix segment, never empty, never an error
get_endpoint_name(p) ==
    IF PrefixSegment(p) = <<>> THEN <<"unknown">> ELSE PrefixSegment(p)

\* tweet_id_to_timestamp: the time encoded in the identifier, or the
\* current time when the identifier encodes none; never fails
tweet_id_to_timestamp(id) ==
    IF id.t = "int" /\ id.v >= 0 THEN <<"encoded-in", id.v>> ELSE <<"now">>

(***************************************************************************)
(* The two parsers of fetch_endpoint.  An outcome is one of                *)
(*   [kind = "ok", records, pulled]   the loop ran to its end              *)
(*   [kind = "missing", msg]          the top-level container is absent    *)
(*   [kind = "raise", exc]            a Python exception left the parser   *)
(***************************************************************************)
Raise(e) == [kind |-> "raise", exc |-> e]

AttributeError(x) ==
    Exc("AttributeError", <<"'", x.t, "' object has no attribute 'get'">>)

NotIterable(x) == Exc("TypeError", <<"'", x.t, "' object is not iterable">>)

NoLen(x) == Exc("TypeError", <<"object of type '", x.t, "' has no len()">>)

RECURSIVE CleanLinks(_)
\* [link.strip() for link in xs if isinstance(link, str) and link.strip()]
CleanLinks(xs) ==
    IF xs = <<>> THEN <<>>
    ELSE IF Head(xs).t = "str" /\ Strip(Head(xs).v) # <<>>
         THEN <<Strip(Head(xs).v)>> \o CleanLinks(Tail(xs))
         ELSE CleanLinks(Tail(xs))

\* one pass of the event-summary loop body:
\* [kind = "skip"], [kind = "record", record] or [kind = "raise", exc]
EventSummaryItem(item, path) ==
    IF item.t # "dict" THEN Raise(AttributeError(item))
    ELSE
      LET tweet_ids == Get(item, "tweetIds", JList(<<>>)) IN
      IF ~Truthy(tweet_ids) THEN [kind |-> "skip"]
      ELSE IF ~First(tweet_ids).ok THEN Raise(First(tweet_ids).exc)
      ELSE
        LET tweet_id == First(tweet_ids).val
            links    == Get(item, "sourceLinks", JList(<<>>))
        IN
        IF ~IsSized(links) THEN Raise(NotIterable(links))
        ELSE [kind |-> "record",
              record |->
                [id         |-> tweet_id,
                 text       |-> Strip(StrOf(Get(item, "summary", JStr(<<>>)))),
                 timestamp  |-> <<"now">>,
                 author     |-> <<"elfa_">> \o StrOf(tweet_id),
                 platform   |-> "elfa",
                 channel_id |-> path,
                 links      |-> CleanLinks(Iter(links))]]

RECURSIVE EventSummaryLoop(_, _, _)
\* for item in items: ... records.append(record)
EventSummaryLoop(items, records, path) ==
    IF items = <<>> THEN [kind |-> "ok", records |-> records]
    ELSE
      LET r == EventSummaryItem(Head(items), path) IN
      CASE r.kind = "raise"  -> r
        [] r.kind = "skip"   -> EventSummaryLoop(Tail(items), records, path)
        [] r.kind = "record" ->
             EventSummaryLoop(Tail(items), Append(records, r.record), path)

MissingDataMsg == <<"(warning sign) Missing 'data' field in event-summary response">>

\* variant of ParseEventSummary: pulled is len(raw_data), not len(items)
ParseEventSummaryTopLevelCount(raw, path) ==
    IF ~(raw.t = "dict" /\ HasKey(raw, "data"))
    THEN [kind |-> "missing", msg |-> MissingDataMsg]
    ELSE
      LET items == Lookup(raw, "data") IN
      IF ~IsSized(items) THEN Raise(NoLen(items))
      ELSE
        LET r == EventSummaryLoop(Iter(items), <<>>, path) IN
        IF r.kind = "raise" THEN r
        ELSE [kind |-> "ok", records |-> r.records, pulled |-> Len(raw.v)]

\* the branch endpoint_type == "event-summary"
ParseEventSummary(raw, path) ==
    IF ~(raw.t = "dict" /\ HasKey(raw, "data"))
    THEN [kind |-> "missing", msg |-> MissingDataMsg]
    ELSE
      LET items == Lookup(raw, "data") IN
      IF ~IsSized(items) THEN Raise(NoLen(items))
      ELSE
        LET r == EventSummaryLoop(Iter(items), <<>>, path) IN
        IF r.kind = "raise" THEN r
        ELSE [kind |-> "ok", records |-> r.records, pulled |-> Len(items.v)]

\* variant of TrendingItem: the last identifier of the list is taken
TrendingItemLastId(item, path) ==
    IF item.t # "dict" THEN Raise(AttributeError(item))
    ELSE
      LET tweet_ids == Get(item, "tweet_ids", JList(<<>>)) IN
      IF ~Truthy(tweet_ids) THEN [kind |-> "skip"]
      ELSE IF ~First(tweet_ids).ok THEN Raise(First(tweet_ids).exc)
      ELSE
        LET tweet_id == Iter(tweet_ids)[Len(tweet_ids.v)]
            links    == Get(item, "source_links", JList(<<>>))
        IN
        IF ~IsSized(links) THEN Raise(NotIterable(links))
        ELSE [kind |-> "record",
              record |->
                [id         |-> tweet_id,
                 text       |-> Strip(StrOf(Get(item, "narrative", JStr(<<>>)))),
                 timestamp  |-> tweet_id_to_timestamp(tweet_id),
                 author     |-> <<"elfa_">> \o StrOf(tweet_id),
                 platform   |-> "elfa",
                 channel_id |-> path,
                 links      |-> CleanLinks(Iter(links))]]

\* one pass of the trending-narratives loop body
TrendingItem(item, path) ==
    IF item.t # "dict" THEN Raise(AttributeError(item))
    ELSE
      LET tweet_ids == Get(item, "tweet_ids", JList(<<>>)) IN
      IF ~Truthy(tweet_ids) THEN [kind |-> "skip"]
      ELSE IF ~First(tweet_ids).ok THEN Raise(First(tweet_ids).exc)
      ELSE
        LET tweet_id == First(tweet_ids).val
            links    == Get(item, "source_links", JList(<<>>))
        IN
        IF ~IsSized(links) THEN Raise(NotIterable(links))
        ELSE [kind |-> "record",
              record |->
                [id         |-> tweet_id,
                 text       |-> Strip(StrOf(Get(item, "narrative", JStr(<<>>)))),
                 timestamp  |-> tweet_id_to_timestamp(tweet_id),
                 author     |-> <<"elfa_">> \o StrOf(tweet_id),
                 platform   |-> "elfa",
                 channel_id |-> path,
                 links      |-> CleanLinks(Iter(links))]]

RECURSIVE TrendingLoop(_, _, _)
\* for item in narratives: ... records.append(record)
TrendingLoop(items, records, path) ==
    IF items = <<>> THEN [kind |-> "ok", records |-> records]
    ELSE
      LET r == TrendingItem(Head(items), path) IN
      CASE r.kind = "raise"  -> r
        [] r.kind = "skip"   -> TrendingLoop(Tail(items), records, path)
        [] r.kind = "record" ->
             TrendingLoop(Tail(items), Append(records, r.record), path)

MissingTrendingMsg == <<"(warning sign) Missing 'trending_narratives' in response">>

\* the condition of the trending-narratives guard:
\* isinstance(raw, dict) and "data" in raw and "trending_narratives" in raw["data"]
HasTrendingNesting(raw) ==
    IF ~(raw.t = "dict" /\ HasKey(raw, "data")) THEN [ok |-> TRUE, val |-> FALSE]
    ELSE Contains(Lookup(raw, "data"), "trending_narratives")

\* variant of ParseTrending: the nesting is read with .get and defaults,
\* raw.get("data", {}).get("trending_narratives", [])
ParseTrendingLenient(raw, path) ==
    LET data == IF raw.t = "dict" THEN Get(raw, "data", JDict(<<>>)) ELSE JDict(<<>>)
        narratives == IF data.t = "dict"
                      THEN Get(data, "trending_narratives", JList(<<>>))
                      ELSE JList(<<>>)
    IN
    IF ~IsSized(narratives) THEN Raise(NoLen(narratives))
    ELSE
      LET r == TrendingLoop(Iter(narratives), <<>>, path) IN
      IF r.kind = "raise" THEN r
      ELSE [kind |-> "ok", records |-> r.records, pulled |-> Len(narratives.v)]

\* the branch endpoint_type == "trending-narratives"
ParseTrending(raw, path) ==
    LET guard == HasTrendingNesting(raw) IN
    IF ~guard.ok THEN Raise(guard.exc)
    ELSE IF ~guard.val THEN [kind |-> "missing", msg |-> MissingTrendingMsg]
    ELSE
      LET sub == Subscript(Lookup(raw, "data"), "trending_narratives") IN
      IF ~sub.ok THEN Raise(sub.exc)
      ELSE
        LET narratives == sub.val IN
        IF ~IsSized(narratives) THEN Raise(NoLen(narratives))
        ELSE
          LET r == TrendingLoop(Iter(narratives), <<>>, path) IN
          IF r.kind = "raise" THEN r
          ELSE [kind |-> "ok", records |-> r.records, pulled |-> Len(narratives.v)]

\* the dispatch on endpoint_type
Parse(kind, raw, path) ==
    IF kind = "event-summary" THEN ParseEventSummary(raw, path)
    ELSE ParseTrending(raw, path)

(***************************************************************************)
(* Inputs of one invocation: the path, the behaviour of the upstream API   *)
(* and of the Telegram API.                                                *)
(***************************************************************************)
Paths ==
    { <<"/", "trending-narratives", "?", "timeFrame=day">>,
      <<"trending-narratives">>,
      <<"/", "event-summary", "?", "keywords=btc">>,
      <<"/", "unknown-endpoint">>,
      <<"/", "Event-Summary">>,
      <<>> }

EventKeys == [ids |-> "tweetIds", text |-> "summary", links |-> "sourceLinks"]

TrendingKeys == [ids |-> "tweet_ids", text |-> "narrative", links |-> "source_links"]

\* the item shapes an upstream array may hold, for one naming of the fields
ItemPool(k, other) ==
    << JDict(<< <<k.ids, JList(<<JInt(111), JInt(222)>>)>>,
                <<k.text, JStr(<<" ", "x", " ">>)>>,
                <<k.links, JList(<<JStr(<<"http://a">>), JStr(<<" ">>), JInt(5)>>)>> >>),
       JDict(<< <<k.ids, JList(<<>>)>>, <<k.text, JStr(<<"y">>)>> >>),
       JDict(<< <<k.text, JStr(<<"z">>)>> >>),
       JDict(<< <<k.ids, JNull>> >>),
       JDict(<< <<k.ids, JStr(<<"a", "b">>)>> >>),
       JDict(<< <<k.ids, JInt(7)>> >>),
       JDict(<< <<k.ids, JDict(<< <<"a", JInt(1)>> >>)>> >>),
       JDict(<< <<k.ids, JList(<<JInt(333)>>)>> >>),
       JDict(<< <<k.ids, JList(<<JInt(444)>>)>>, <<k.links, JNull>> >>),
       JDict(<< <<other.ids, JList(<<JInt(555)>>)>> >>),
       JInt(5),
       JStr(<<"x">>),
       JNull >>

PoolSize == Len(ItemPool(EventKeys, TrendingKeys))

\* {"data": [...]}
EventPayload(items) == JDict(<< <<"data", JList(items)>> >>)

\* {"data": {"trending_narratives": [...]}}
TrendingPayload(items) ==
    JDict(<< <<"data", JDict(<< <<"trending_narratives", JList(items)>> >>)>> >>)

DataIs(x) == JDict(<< <<"data", x>> >>)

\* payloads whose top level is not the expected container
OddPayloads ==
    << JNull,
       JInt(1),
       JList(<<>>),
       JStr(<<"data">>),
       JDict(<<>>),
       JDict(<< <<"status", JStr(<<"ok">>)>> >>),
       DataIs(JNull),
       DataIs(JInt(5)),
       DataIs(JStr(<<>>)),
       DataIs(JStr(<<"a", "b">>)),
       DataIs(JStr(<<"no ", "trending_narratives", " today">>)),
       DataIs(JList(<<JStr(<<"trending_narratives">>)>>)),
       DataIs(JList(<<JInt(1)>>)),
       DataIs(JDict(<<>>)),
       DataIs(JDict(<< <<"other", JList(<<>>)>> >>)),
       DataIs(JDict(<< <<"trending_narratives", JNull>> >>)),
       DataIs(JDict(<< <<"trending_narratives", JInt(3)>> >>)),
       DataIs(JDict(<< <<"trending_narratives", JStr(<<>>)>> >>)),
       DataIs(JDict(<< <<"trending_narratives", JStr(<<"a">>)>> >>)),
       DataIs(JDict(<< <<"trending_narratives", JDict(<<>>)>> >>)),
       DataIs(JDict(<< <<"trending_narratives", JDict(<< <<"a", JInt(1)>> >>)>> >>)) >>

Decoded(x) == [ok |-> TRUE, val |-> x]

Failed(e) == [ok |-> FALSE, exc |-> e]

TimeoutError == Exc("TimeoutError", <<>>)

SetupErrors == { Exc("RuntimeError", <<"Event loop is closed">>) }

TransportErrors ==
    { TimeoutError, Exc("ClientConnectorError", <<"Cannot connect to host">>) }

TextErrors ==
    { TimeoutError, Exc("ClientPayloadError", <<"Response payload is not completed">>) }

DecodeErrors ==
    { TimeoutError,
      Exc("ContentTypeError", <<"Attempt to decode JSON with unexpected mimetype">>),
      Exc("JSONDecodeError", <<"Expecting value">>) }

ServerError == <<"s", "e", "r", "v", "e", "r", " ", "e", "r", "r", "o", "r">>

\* a body of n characters
LongBody(n) == [i \in 1..n |-> IF i % 3 = 0 THEN "a" ELSE IF i % 3 = 1 THEN "b" ELSE "c"]

BodyTexts ==
    { <<>>, ServerError,
      LongBody(ErrorTextLimit - 1), LongBody(ErrorTextLimit),
      LongBody(ErrorTextLimit + 1), LongBody(ErrorTextLimit + 60) }

Statuses == { 200, 404, 500 }

TelegramOutcomes == { "sent", "rejected", "exception" }

(***************************************************************************)
(* The trace of effects.                                                   *)
(***************************************************************************)
Event(ev, who, level, msg) == [ev |-> ev, who |-> who, level |-> level, msg |-> msg]

LogLine(who, level, msg) == Event("log", who, level, msg)

\* self.logger.error / warning / info
ScraperLog(level, msg) == LogLine("ElfaScraper", level, msg)

\* send_error_to_telegram(error_message): the effects of one call
send_error_to_telegram(error_message, outcome) ==
    LET call == Event("send_error_to_telegram", "ElfaScraper", "", error_message)
        text == <<"(siren) *ERROR NOTIFICATION*", "\n", "\n">> \o error_message
        post == Event("telegram_post", "notification", "", text)
    IN
    IF notif_config = "missing"
    THEN << call,
            LogLine("notification", "error",
                    <<"(cross mark) Missing NOTIF_BOT_TOKEN or NOTIF_CHAT_ID in .env">>) >>
    ELSE CASE outcome = "sent" ->
                << call, post,
                   LogLine("notification", "info",
                           <<"(check mark) Error notification sent to Telegram.">>) >>
           [] outcome = "rejected" ->
                << call, post,
                   LogLine("notification", "error",
                           <<"(cross mark) Failed to send error message. Telegram API response: ">>) >>
           [] outcome = "exception" ->
                << call, post,
                   LogLine("notification", "error",
                           <<"(cross mark) Exception while sending error to Telegram: ">>) >>

\* the block shared by every failure branch: alert, log, leave the session
\* (when one is open), return the empty frame and the stats
FailureEffects(error_msg, level, outcome, inSession) ==
    send_error_to_telegram(error_msg, outcome)
      \o << ScraperLog(level, error_msg) >>
      \o (IF inSession THEN << Event("session_close", "ElfaScraper", "", <<>>) >> ELSE <<>>)

EmptyFrame == <<>>

FailureStats(channel_id, error) ==
    [channel_id |-> channel_id, platform |-> "elfa", pulled |-> 0, kept |-> 0,
     success |-> FALSE, error |-> error]

BaseUrl == <<"https://api.elfa.ai/v2/data">>

\* urljoin(elfa_base_url.rstrip("/") + "/", path_url.lstrip("/"))
FullUrl(p) == BaseUrl \o <<"/">> \o LStripSlash(p)

(***************************************************************************)
(* The invocation.  pc is the position in fetch_endpoint; the return       *)
(* statements are told apart: ret_invalid (line 46), ret_http (73),        *)
(* ret_json (86), ret_missing (99, 137), ret_ok (175), ret_unexpected      *)
(* (184); raised means an exception left the function.                     *)
(***************************************************************************)
FailureReturns == {"ret_invalid", "ret_http", "ret_json", "ret_missing", "ret_unexpected"}

ReturnSites == FailureReturns \cup {"ret_ok"}

Init ==
    /\ pc = "validate"
    /\ path_url \in Paths
    /\ notif_config \in {"set", "missing"}
    /\ endpoint_type = ""
    /\ title_elfa = <<>>
    /\ full_url = <<>>
    /\ session = "none"
    /\ resp = Unset
    /\ raw_data = Unset
    /\ exc = NoExc
    /\ trace = <<>>
    /\ result = Unset
    /\ raised = NoExc

\* lines 39-40, 48-58: the path names a known endpoint
ValidateOk ==
    /\ pc = "validate"
    /\ is_valid_endpoint_path(path_url).ok
    /\ endpoint_type' = is_valid_endpoint_path(path_url).val
    /\ title_elfa' = get_endpoint_name(path_url)
    /\ full_url' = FullUrl(path_url)
    /\ pc' = "session"
    /\ UNCHANGED <<path_url, session, resp, raw_data, exc, trace, result, raised,
                   notif_config>>

\* variant of ValidateInvalid: the stats are labelled with the derived name
ValidateInvalidNamed ==
    /\ pc = "validate"
    /\ ~is_valid_endpoint_path(path_url).ok
    /\ \E outcome \in TelegramOutcomes :
         LET e == is_valid_endpoint_path(path_url).exc
             error_msg == <<"(cross mark) Invalid Elfa endpoint: ">> \o e.msg
         IN
         /\ trace' = trace \o FailureEffects(error_msg, "error", outcome, FALSE)
         /\ result' = [records |-> EmptyFrame,
                       stats |-> [channel_id |-> get_endpoint_name(path_url),
                                  platform |-> "elfa", pulled |-> 0, kept |-> 0]]
    /\ pc' = "ret_invalid"
    /\ UNCHANGED <<path_url, endpoint_type, title_elfa, full_url, session, resp,
                   raw_data, exc, raised, notif_config>>

\* lines 41-46: except ValueError
ValidateInvalid ==
    /\ pc = "validate"
    /\ ~is_valid_endpoint_path(path_url).ok
    /\ \E outcome \in TelegramOutcomes :
         LET e == is_valid_endpoint_path(path_url).exc
             error_msg == <<"(cross mark) Invalid Elfa endpoint: ">> \o e.msg
         IN
         /\ trace' = trace \o FailureEffects(error_msg, "error", outcome, FALSE)
         /\ result' = [records |-> EmptyFrame,
                       stats |-> [channel_id |-> path_url, platform |-> "elfa",
                                  pulled |-> 0, kept |-> 0]]
    /\ pc' = "ret_invalid"
    /\ UNCHANGED <<path_url, endpoint_type, title_elfa, full_url, session, resp,
                   raw_data, exc, raised, notif_config>>

\* line 60: the session is acquired
SessionOpens ==
    /\ pc = "session"
    /\ session' = "open"
    /\ trace' = trace \o << Event("session_open", "ElfaScraper", "", <<>>) >>
    /\ pc' = "get"
    /\ UNCHANGED <<path_url, endpoint_type, title_elfa, full_url, resp, raw_data,
                   exc, result, raised, notif_config>>

\* line 60: acquiring the session raises; no try encloses the statement
SessionRaises ==
    /\ pc = "session"
    /\ \E e \in SetupErrors : raised' = e
    /\ pc' = "raised"
    /\ UNCHANGED <<path_url, endpoint_type, title_elfa, full_url, session, resp,
                   raw_data, exc, trace, result, notif_config>>

\* what the upstream may answer: a status, the body as text() would give it
\* and as json() would give it
Responds(status, text, json) ==
    /\ resp' = [t |-> "response", status |-> status, text |-> text, json |-> json]
    /\ trace' = trace \o << Event("http_get", "ElfaScraper", "", full_url) >>
    /\ pc' = "status"

\* lines 62-66: the GET is answered
GetResponds ==
    /\ pc = "get"
    /\ \/ \E n \in 0..MaxItems : \E f \in [1..n -> 1..PoolSize] :
            \/ Responds(HttpOk, Decoded(ServerError),
                 Decoded(EventPayload(
                   [i \in 1..n |-> ItemPool(EventKeys, TrendingKeys)[f[i]]])))
            \/ Responds(HttpOk, Decoded(ServerError),
                 Decoded(TrendingPayload(
                   [i \in 1..n |-> ItemPool(TrendingKeys, EventKeys)[f[i]]])))
       \/ \E i \in 1..Len(OddPayloads) :
            Responds(HttpOk, Decoded(ServerError), Decoded(OddPayloads[i]))
       \/ \E e \in DecodeErrors :
            Responds(HttpOk, Decoded(ServerError), Failed(e))
       \/ \E status \in Statuses \ {HttpOk} :
            \/ \E body \in BodyTexts :
                 \/ Responds(status, Decoded(body), Failed(Exc("JSONDecodeError", <<"Expecting value">>)))
                 \/ Responds(status, Decoded(body),
                      Decoded(TrendingPayload(<<ItemPool(TrendingKeys, EventKeys)[1]>>)))
                 \/ Responds(status, Decoded(body),
                      Decoded(EventPayload(<<ItemPool(EventKeys, TrendingKeys)[1]>>)))
            \/ \E e \in TextErrors :
                 Responds(status, Failed(e),
                      Decoded(EventPayload(<<ItemPool(EventKeys, TrendingKeys)[1]>>)))
    /\ UNCHANGED <<path_url, endpoint_type, title_elfa, full_url, session,
                   raw_data, exc, result, raised, notif_config>>

\* lines 62-66: the GET raises (transport error, timeout)
GetRaises ==
    /\ pc = "get"
    /\ \E e \in TransportErrors : exc' = e
    /\ trace' = trace \o << Event("http_get", "ElfaScraper", "", full_url) >>
    /\ pc' = "except"
    /\ UNCHANGED <<path_url, endpoint_type, title_elfa, full_url, session, resp,
                   raw_data, result, raised, notif_config>>

\* line 68: resp.status == 200
StatusOk ==
    /\ pc = "status"
    /\ resp.status = HttpOk
    /\ pc' = "json"
    /\ UNCHANGED <<path_url, endpoint_type, title_elfa, full_url, session, resp,
                   raw_data, exc, trace, result, raised, notif_config>>

\* lines 68-78: resp.status != 200 and the body is read
HttpErrorReturn ==
    /\ pc = "status"
    /\ resp.status # HttpOk
    /\ resp.text.ok
    /\ \E outcome \in TelegramOutcomes :
         LET error_text == Take(resp.text.val, ErrorTextLimit)
             error_msg == <<"(cross mark) Elfa ">> \o title_elfa
                            \o <<": HTTP ", ToString(resp.status), " - ">> \o error_text
         IN
         /\ trace' = trace \o << Event("read_text", "ElfaScraper", "", <<>>) >>
                           \o FailureEffects(error_msg, "error", outcome, TRUE)
         /\ result' = [records |-> EmptyFrame,
                       stats |-> FailureStats(title_elfa, error_text)]
    /\ session' = "closed"
    /\ pc' = "ret_http"
    /\ UNCHANGED <<path_url, endpoint_type, title_elfa, full_url, resp, raw_data,
                   exc, raised, notif_config>>

\* line 69: resp.status != 200 and reading the body raises
HttpErrorTextRaises ==
    /\ pc = "status"
    /\ resp.status # HttpOk
    /\ ~resp.text.ok
    /\ exc' = resp.text.exc
    /\ trace' = trace \o << Event("read_text", "ElfaScraper", "", <<>>) >>
    /\ pc' = "except"
    /\ UNCHANGED <<path_url, endpoint_type, title_elfa, full_url, session, resp,
                   raw_data, result, raised, notif_config>>

\* lines 80-81: the body decodes
JsonDecodeOk ==
    /\ pc = "json"
    /\ resp.json.ok
    /\ raw_data' = resp.json.val
    /\ trace' = trace \o << Event("json_decode", "ElfaScraper", "", <<>>) >>
    /\ pc' = "parse"
    /\ UNCHANGED <<path_url, endpoint_type, title_elfa, full_url, session, resp,
                   exc, result, raised, notif_config>>

\* lines 82-90: resp.json() raises
JsonDecodeFails ==
    /\ pc = "json"
    /\ ~resp.json.ok
    /\ \E outcome \in TelegramOutcomes :
         LET e == resp.json.exc
             error_msg == <<"(cross mark) Failed to parse JSON from Elfa ">>
                            \o title_elfa \o <<": ">> \o e.msg
         IN
         /\ trace' = trace \o << Event("json_decode", "ElfaScraper", "", <<>>) >>
                           \o FailureEffects(error_msg, "error", outcome, TRUE)
         /\ result' = [records |-> EmptyFrame,
                       stats |-> FailureStats(title_elfa, e.msg)]
    /\ session' = "closed"
    /\ pc' = "ret_json"
    /\ UNCHANGED <<path_url, endpoint_type, title_elfa, full_url, resp, raw_data,
                   exc, raised, notif_config>>

\* lines 95-103, 132-142: the top-level container is missing
ParseMissing ==
    /\ pc = "parse"
    /\ Parse(endpoint_type, raw_data, path_url).kind = "missing"
    /\ \E outcome \in TelegramOutcomes :
         LET error_msg == Parse(endpoint_type, raw_data, path_url).msg IN
         /\ trace' = trace \o << Event("parse", "ElfaScraper", "", <<>>) >>
                           \o FailureEffects(error_msg, "warning", outcome, TRUE)
         /\ result' = [records |-> EmptyFrame,
                       stats |-> FailureStats(title_elfa, error_msg)]
    /\ session' = "closed"
    /\ pc' = "ret_missing"
    /\ UNCHANGED <<path_url, endpoint_type, title_elfa, full_url, resp, raw_data,
                   exc, raised, notif_config>>

\* lines 93-168: an exception leaves the parser
ParseRaises ==
    /\ pc = "parse"
    /\ Parse(endpoint_type, raw_data, path_url).kind = "raise"
    /\ exc' = Parse(endpoint_type, raw_data, path_url).exc
    /\ trace' = trace \o << Event("parse", "ElfaScraper", "", <<>>) >>
    /\ pc' = "except"
    /\ UNCHANGED <<path_url, endpoint_type, title_elfa, full_url, session, resp,
                   raw_data, result, raised, notif_config>>

\* lines 170-178: Finalize
Finalize ==
    /\ pc = "parse"
    /\ Parse(endpoint_type, raw_data, path_url).kind = "ok"
    /\ LET parsed == Parse(endpoint_type, raw_data, path_url)
           total_pulled == parsed.pulled
           total_kept == Len(parsed.records)
       IN
       /\ trace' = trace \o << Event("parse", "ElfaScraper", "", <<>>),
                               ScraperLog("info",
                                 <<"[Elfa] Pulled: ", ToString(total_pulled),
                                   " | Kept: ", ToString(total_kept)>>),
                               Event("session_close", "ElfaScraper", "", <<>>) >>
       /\ result' = [records |-> parsed.records,
                     stats |-> [channel_id |-> title_elfa, platform |-> "elfa",
                                pulled |-> total_pulled, kept |-> total_kept]]
    /\ session' = "closed"
    /\ pc' = "ret_ok"
    /\ UNCHANGED <<path_url, endpoint_type, title_elfa, full_url, resp, raw_data,
                   exc, raised, notif_config>>

\* variant of OuterCatch: the failure is logged but no alert is sent
OuterCatchNoAlert ==
    /\ pc = "except"
    /\ LET error_msg == <<"(collision) Elfa ">> \o title_elfa
                            \o <<": Unexpected error - ">> \o exc.msg
       IN
       /\ trace' = trace \o << ScraperLog("error", error_msg),
                               Event("session_close", "ElfaScraper", "", <<>>) >>
       /\ result' = [records |-> EmptyFrame,
                     stats |-> FailureStats(title_elfa, error_msg)]
    /\ session' = "closed"
    /\ pc' = "ret_unexpected"
    /\ UNCHANGED <<path_url, endpoint_type, title_elfa, full_url, resp, raw_data,
                   exc, raised, notif_config>>

\* lines 180-189: except Exception
OuterCatch ==
    /\ pc = "except"
    /\ \E outcome \in TelegramOutcomes :
         LET error_msg == <<"(collision) Elfa ">> \o title_elfa
                            \o <<": Unexpected error - ">> \o exc.msg
         IN
         /\ trace' = trace \o FailureEffects(error_msg, "error", outcome, TRUE)
         /\ result' = [records |-> EmptyFrame,
                       stats |-> FailureStats(title_elfa, error_msg)]
    /\ session' = "closed"
    /\ pc' = "ret_unexpected"
    /\ UNCHANGED <<path_url, endpoint_type, title_elfa, full_url, resp, raw_data,
                   exc, raised, notif_config>>

Next ==
    \/ ValidateOk
    \/ ValidateInvalid
    \/ SessionOpens
    \/ SessionRaises
    \/ GetResponds
    \/ GetRaises
    \/ StatusOk
    \/ HttpErrorReturn
    \/ HttpErrorTextRaises
    \/ JsonDecodeOk
    \/ JsonDecodeFails
    \/ ParseMissing
    \/ ParseRaises
    \/ Finalize
    \/ OuterCatch

Spec == Init /\ [][Next]_vars

TypeOK ==
    /\ pc \in {"validate", "session", "get", "status", "json", "parse", "except",
               "raised"} \cup ReturnSites
    /\ session \in {"none", "open", "closed"}

(***************************************************************************)
(* Observations on a finished invocation.                                  *)
(***************************************************************************)
Returned == pc \in ReturnSites

Stats == result.stats

IsAlert(e) == e.ev = "send_error_to_telegram"

IsFailureLog(e) ==
    e.ev = "log" /\ e.who = "ElfaScraper" /\ e.level \in {"error", "warning"}

Alerts == SelectSeq(trace, IsAlert)

Happened(ev) == \E i \in 1..Len(trace) : trace[i].ev = ev

SaysFailure(st) == "success" \in DOMAIN st /\ st.success = FALSE

ErrorPopulated(st) == "error" \in DOMAIN st /\ Len(st.error) > 0

\* e is the first n characters of body, or all of body when it is shorter
IsFirstChars(e, body, n) ==
    /\ Len(e) = (IF Len(body) < n THEN Len(body) ELSE n)
    /\ \A i \in 1..Len(e) : e[i] = body[i]

IsTrending == endpoint_type = "trending-narratives"

IsEvent == endpoint_type = "event-summary"

\* the decoded payload has no data.trending_narratives nesting
LacksNesting(raw) ==
    ~(/\ raw.t = "dict"
      /\ HasKey(raw, "data")
      /\ Lookup(raw, "data").t = "dict"
      /\ HasKey(Lookup(raw, "data"), "trending_narratives"))

\* the top-level array of the endpoint kind is present in the payload
ContainerPresent(raw) ==
    /\ raw.t = "dict"
    /\ HasKey(raw, "data")
    /\ IsEvent => Lookup(raw, "data").t = "list"
    /\ IsTrending =>
         /\ Lookup(raw, "data").t = "dict"
         /\ HasKey(Lookup(raw, "data"), "trending_narratives")
         /\ Lookup(Lookup(raw, "data"), "trending_narratives").t = "list"

IdsKey == IF IsEvent THEN "tweetIds" ELSE "tweet_ids"

\* the items of the upstream array (none when the container holds no array)
UpstreamArray ==
    LET c == IF IsEvent THEN Lookup(raw_data, "data")
             ELSE Lookup(Lookup(raw_data, "data"), "trending_narratives")
    IN IF c.t = "list" THEN c.v ELSE <<>>

\* the item carries a non-empty identifier list
HasIdentifiers(item) ==
    /\ item.t = "dict"
    /\ HasKey(item, IdsKey)
    /\ Lookup(item, IdsKey).t \in {"list", "str"}
    /\ Len(Lookup(item, IdsKey).v) > 0

KeptItems == SelectSeq(UpstreamArray, HasIdentifiers)

FirstIdentifier(item) == Iter(Lookup(item, IdsKey))[1]

(***************************************************************************)
(* The claims.                                                             *)
(***************************************************************************)

\* C1: every failure return of fetch_endpoint carries an empty record set and
\* stats with success = false, a populated error string, pulled = 0 and
\* kept = 0 -- the invalid-endpoint return included.
C1_FailureStatsShape ==
    pc \in FailureReturns =>
        /\ result.records = <<>>
        /\ SaysFailure(Stats)
        /\ ErrorPopulated(Stats)
        /\ Stats.pulled = 0
        /\ Stats.kept = 0

\* C2: fetch_endpoint never raises to its caller: no exception leaves the
\* function, whatever the validator, the session setup, the HTTP call, the
\* decoder and the parser do.
C2_NeverRaises == pc # "raised"

\* C3: every failure return is preceded, within the invocation, by a call of
\* send_error_to_telegram and by a diagnostic log line carrying the same
\* failure message.
C3_AlertAndLogBeforeFailureReturn ==
    pc \in FailureReturns =>
        \E i, j \in 1..Len(trace) :
            /\ IsAlert(trace[i])
            /\ IsFailureLog(trace[j])
            /\ trace[j].msg = trace[i].msg

C3_Witness ==
    /\ pc = "ret_unexpected"
    /\ exc.type = "AttributeError"
    /\ Len(Alerts) = 1

\* C4: when validation fails, no upstream session is opened and no GET is
\* issued, and the stats carry the raw path as channel_id; every failure
\* after validation carries the derived endpoint name as channel_id.
C4_InvalidEndpointIsLocal ==
    /\ pc = "ret_invalid" =>
         /\ session = "none"
         /\ ~Happened("session_open")
         /\ ~Happened("http_get")
         /\ Stats.channel_id = path_url
    /\ pc \in FailureReturns \ {"ret_invalid"} =>
         Stats.channel_id = get_endpoint_name(path_url)

C4_Witness ==
    /\ pc = "ret_invalid"
    /\ path_url = <<"/", "unknown-endpoint">>
    /\ Stats.channel_id = <<"/", "unknown-endpoint">>
    /\ Len(Alerts) = 1

\* C5 as stated: whenever the status is not 200, the returned error is exactly
\* the first 200 characters of the response body, pulled = kept = 0, and
\* neither JSON decoding nor parsing is attempted.
C5_Original ==
    (Returned /\ resp.t = "response" /\ resp.status # HttpOk) =>
        /\ resp.text.ok
        /\ IsFirstChars(Stats.error, resp.text.val, ErrorTextLimit)
        /\ Stats.pulled = 0
        /\ Stats.kept = 0
        /\ ~Happened("json_decode")
        /\ ~Happened("parse")

\* C5 amended: whenever the status is not 200, the call returns failure stats
\* with pulled = kept = 0 without attempting JSON decoding or parsing; the
\* error is exactly the first 200 characters of the body when the body is read
\* without error, and the return is the catch-all's when reading it raises.
C5_Amended ==
    (Returned /\ resp.t = "response" /\ resp.status # HttpOk) =>
        /\ SaysFailure(Stats)
        /\ Stats.pulled = 0
        /\ Stats.kept = 0
        /\ ~Happened("json_decode")
        /\ ~Happened("parse")
        /\ resp.text.ok =>
             /\ pc = "ret_http"
             /\ IsFirstChars(Stats.error, resp.text.val, ErrorTextLimit)
        /\ ~resp.text.ok => pc = "ret_unexpected"

C5_Witness ==
    /\ pc = "ret_http"
    /\ resp.status = 500
    /\ resp.json.ok
    /\ Len(resp.text.val) > ErrorTextLimit
    /\ Len(Stats.error) = ErrorTextLimit

\* C6: for the trending-narratives kind, a decoded payload without the
\* data.trending_narratives nesting always ends in a failure result
\* (success = false, error populated, pulled = kept = 0), never in a
\* successful empty record set.
C6_MissingNestingFails ==
    (Returned /\ IsTrending /\ raw_data.t # "unset" /\ LacksNesting(raw_data)) =>
        /\ pc # "ret_ok"
        /\ result.records = <<>>
        /\ SaysFailure(Stats)
        /\ ErrorPopulated(Stats)
        /\ Stats.pulled = 0
        /\ Stats.kept = 0

C6_Witness ==
    /\ pc = "ret_unexpected"
    /\ IsTrending
    /\ raw_data.t = "dict"
    /\ HasKey(raw_data, "data")
    /\ Lookup(raw_data, "data").t = "str"
    /\ LacksNesting(raw_data)

\* C7: on a successful fetch, pulled is the number of items of the upstream
\* array, kept is the number of items with a non-empty identifier list, and
\* the records are, in upstream order, one per such item, each with the first
\* identifier of its item as id.
C7_PulledKeptRecords ==
    pc = "ret_ok" =>
        /\ Stats.pulled = Len(UpstreamArray)
        /\ Stats.kept = Len(KeptItems)
        /\ Len(result.records) = Len(KeptItems)
        /\ \A i \in 1..Len(KeptItems) :
             result.records[i].id = FirstIdentifier(KeptItems[i])

C7_Witness ==
    /\ pc = "ret_ok"
    /\ IsTrending
    /\ Stats.pulled = 2
    /\ Stats.kept = 1
    /\ result.records[1].id.t = "int"
    /\ result.records[1].id.v = 111

\* C8: in every returned result kept <= pulled, and on every failure return
\* both are 0.
C8_KeptAtMostPulled ==
    Returned =>
        /\ Stats.kept <= Stats.pulled
        /\ pc \in FailureReturns => (Stats.pulled = 0 /\ Stats.kept = 0)

C8_Witness ==
    /\ pc = "ret_ok"
    /\ IsEvent
    /\ Stats.pulled = 2
    /\ Stats.kept = 2

\* C9: when the top-level container of the kind is present, no shape mismatch
\* of an individual item fails the call: the call returns through Finalize.
C9_PerItemLeniency ==
    (Returned /\ raw_data.t # "unset" /\ ContainerPresent(raw_data)) => pc = "ret_ok"

\* C10: an invocation sends at most one alert; exactly one when the returned
\* stats say failure (success = false) and none when success is absent.
C10_OneAlertIffFailure ==
    Returned =>
        /\ Len(Alerts) <= 1
        /\ SaysFailure(Stats) => Len(Alerts) = 1
        /\ ~("success" \in DOMAIN Stats) => Len(Alerts) = 0

====
